---- MODULE Spec2Model ----
(***************************************************************************)
(* Replenishment analytics of the material-forecasting dashboard:          *)
(* calculate_inventory_metrics, load_full_inventory and                    *)
(* get_dashboard_summary of inventory_data.py, and the status classifier   *)
(* that app.py repeats.                                                    *)
(*                                                                         *)
(* Numbers.  Python floats are modelled in fixed point: a finite float is  *)
(* <<"fin", m>> with m its value in units of 1/Scale, and the IEEE special *)
(* values are <<"nan", 0>>, <<"pinf", 0>> and <<"ninf", 0>>.  TLC integers *)
(* are 32 bits wide, so products are formed by MulDivQR, which never holds *)
(* more than three times its divisor.  Service levels are in permille,     *)
(* standard deviations in tenths, unit costs in cents.                     *)
(***************************************************************************)
EXTENDS Integers, Sequences, FiniteSets, TLC

VARIABLES
  lastCall,        \* SpecCalc: the latest calculate_inventory_metrics call
  clsCall,         \* SpecClassify: the latest classification
  full_inventory,  \* SpecAgg: the item DataFrame handed to the aggregation
  summary,         \* SpecAgg: the summary computed from it
  rng,             \* Spec: the state of numpy's process-wide generator
  mtOut,           \* Spec: the generator's output in each of its states
  otherDraws,      \* Spec: draws other code made between the two calls
  pc,              \* Spec: where each call of the loader stands
  kind,            \* Spec: "load" or "summary" (get_dashboard_summary)
  idx,             \* Spec: the loop counters <<i, j>> of each call
  loc,             \* Spec: the loop body's locals of each call
  data,            \* Spec: the list each call has built so far
  ret,             \* Spec: the DataFrame load_full_inventory returned
  dash,            \* Spec: the summary get_dashboard_summary returned
  history,         \* SpecForecast: the historical series the page loaded
  slider,          \* SpecForecast: the values of the page's two sliders
  session,         \* SpecForecast: st.session_state of the session
  disk,            \* SpecForecast: the model pickled to powergrid_model.pkl
  shown,           \* SpecForecast: what the latest script run displayed
  clickLog         \* SpecForecast: the Generate Forecast runs so far

calcVars == <<lastCall>>
clsVars == <<clsCall>>
aggVars == <<full_inventory, summary>>
genVars == <<rng, mtOut, otherDraws, pc, kind, idx, loc, data, ret, dash>>
fcVars == <<history, slider, session, disk, shown, clickLog>>
vars == <<lastCall, clsCall, full_inventory, summary,
          rng, mtOut, otherDraws, pc, kind, idx, loc, data, ret, dash,
          history, slider, session, disk, shown, clickLog>>

(***************************************************************************)
(* Float arithmetic                                                        *)
(***************************************************************************)
Scale == 10000

Fin(m) == <<"fin", m>>
NaN == <<"nan", 0>>
PInf == <<"pinf", 0>>
NInf == <<"ninf", 0>>

Abs(x) == IF x < 0 THEN -x ELSE x

\* One doubling step of MulDivQR: from h = <<q, r>> with a*(b \div 2) = q*d + r
\* to the pair for a*b.
MulDivStep(h, a, b, d) ==
  <<(2 * h[1]) + ((2 * h[2]) \div d)
      + (IF b % 2 = 1 THEN a \div d ELSE 0)
      + ((((2 * h[2]) % d) + (IF b % 2 = 1 THEN a % d ELSE 0)) \div d),
    (((2 * h[2]) % d) + (IF b % 2 = 1 THEN a % d ELSE 0)) % d>>

\* <<q, r>> with a*b = q*d + r and 0 <= r < d, for a, b >= 0 and d > 0,
\* by doubling over the bits of b.
RECURSIVE MulDivQR(_, _, _)
MulDivQR(a, b, d) ==
  IF b = 0 THEN <<0, 0>>
  ELSE MulDivStep(MulDivQR(a, b \div 2, d), a, b, d)

\* r*r <= n * 10^10, compared without forming either side.
SqrtFitsQR(qr, n) == qr[1] < n * 100 \/ (qr[1] = n * 100 /\ qr[2] = 0)

SqrtFits(r, n) == SqrtFitsQR(MulDivQR(r, r, 100000000), n)

RECURSIVE SqrtSearch(_, _, _)
SqrtSearch(n, lo, hi) ==
  IF lo = hi THEN lo
  ELSE IF SqrtFits((lo + hi + 1) \div 2, n)
       THEN SqrtSearch(n, (lo + hi + 1) \div 2, hi)
       ELSE SqrtSearch(n, lo, (lo + hi + 1) \div 2 - 1)

\* np.sqrt(n) for the integers 0..50, in units of 10^-5.
NpSqrtTable == [n \in 0..50 |-> SqrtSearch(n, 0, 100000 * (n + 1))]

NpSqrt(n) == NpSqrtTable[n]

\* scipy.stats.norm.ppf(q), q in permille, the result in units of 10^-6:
\* nan outside [0, 1], -inf at 0, +inf at 1, the quantile in between.
NormPpf(q) ==
  IF q < 0 \/ q > 1000 THEN NaN
  ELSE IF q = 0 THEN NInf
  ELSE IF q = 1000 THEN PInf
  ELSE CASE q = 50  -> Fin(-1644854)
         [] q = 250 -> Fin(-674490)
         [] q = 500 -> Fin(0)
         [] q = 750 -> Fin(674490)
         [] q = 950 -> Fin(1644854)
         [] q = 990 -> Fin(2326348)

\* z_score * demand_std_dev * np.sqrt(lead_time_days): z in 10^-6, the
\* deviation in tenths, the root in 10^-5, the product in 1/Scale.
\* inf * 0 is nan.
SafetyStockRaw(z, std10, lead) ==
  IF z[1] = "nan" THEN NaN
  ELSE IF z[1] \in {"pinf", "ninf"}
       THEN IF std10 = 0 \/ lead = 0 THEN NaN ELSE z
  ELSE IF z[2] < 0
       THEN Fin(-MulDivQR(Abs(z[2]) * std10, NpSqrt(lead), 100000000)[1])
       ELSE Fin(MulDivQR(Abs(z[2]) * std10, NpSqrt(lead), 100000000)[1])

\* (avg_demand_per_day * lead_time_days) + safety_stock
FAddInt(n, x) == IF x[1] = "fin" THEN Fin(n * Scale + x[2]) ELSE x

\* Faulty variant: the clamp at zero left out.
PyMax0Missing(x) == x

\* max(x, 0): Python keeps x unless 0 > x, and 0 > nan is false.
PyMax0(x) ==
  CASE x[1] = "nan"  -> x
    [] x[1] = "pinf" -> x
    [] x[1] = "ninf" -> Fin(0)
    [] x[1] = "fin"  -> IF 0 > x[2] THEN Fin(0) ELSE x

\* int(x): truncation toward zero; ValueError on nan, OverflowError on inf.
PyInt(x) ==
  CASE x[1] = "nan"  -> [raised |-> "ValueError", v |-> 0]
    [] x[1] \in {"pinf", "ninf"} -> [raised |-> "OverflowError", v |-> 0]
    [] x[1] = "fin"  ->
         [raised |-> "", v |-> IF x[2] < 0 THEN -((-x[2]) \div Scale)
                               ELSE x[2] \div Scale]

(***************************************************************************)
(* calculate_inventory_metrics (inventory_data.py)                         *)
(***************************************************************************)
FallbackMetrics == [safety_stock |-> 100, reorder_point |-> 500]

\* The return statement: both conversions succeed, or the except branch
\* prints the error and returns the fallback.
MetricsReturn(ss, rp) ==
  IF ss.raised # "" \/ rp.raised # ""
  THEN [ret |-> FallbackMetrics, printed |-> TRUE]
  ELSE [ret |-> [safety_stock |-> ss.v, reorder_point |-> rp.v],
        printed |-> FALSE]

MetricsFrom(safety_stock, demand) ==
  MetricsReturn(PyInt(PyMax0(safety_stock)),
                PyInt(PyMax0(FAddInt(demand, safety_stock))))

\* The returned dict, and whether the except branch printed its error line.
calculate_inventory_metrics(avg_demand_per_day, lead_time_days, demand_std_dev, service_level) ==
  MetricsFrom(SafetyStockRaw(NormPpf(service_level), demand_std_dev, lead_time_days),
              avg_demand_per_day * lead_time_days)

(***************************************************************************)
(* calculate_inventory_metrics (pages/3_Inventory_Management.py)           *)
(***************************************************************************)
\* round(z_score, 2): a finite z to the nearest hundredth, and to itself
\* with the digits dropped; nan and the infinities stay.
PyRound2(z) ==
  IF z[1] # "fin" THEN z
  ELSE IF z[2] < 0 THEN Fin(-(((-z[2]) + 5000) \div 10000) * 10000)
  ELSE Fin(((z[2] + 5000) \div 10000) * 10000)

\* The page's return statement: there is no try, so a failed conversion
\* leaves the function as an exception.
PageMetricsReturn(ss, rp, z) ==
  IF ss.raised # "" THEN [raised |-> ss.raised, ret |-> <<>>]
  ELSE IF rp.raised # "" THEN [raised |-> rp.raised, ret |-> <<>>]
  ELSE [raised |-> "",
        ret |-> [safety_stock |-> ss.v, reorder_point |-> rp.v,
                 z_score |-> PyRound2(z)]]

PageMetricsFrom(safety_stock, demand, z) ==
  PageMetricsReturn(PyInt(PyMax0(safety_stock)),
                    PyInt(PyMax0(FAddInt(demand, safety_stock))), z)

\* Faulty variant: the z-score rounded to two places before it is used.
PageMetricsRoundedZ(avg_demand_per_day, lead_time_days, demand_std_dev, service_level) ==
  PageMetricsFrom(SafetyStockRaw(PyRound2(NormPpf(service_level)),
                                 demand_std_dev, lead_time_days),
                  avg_demand_per_day * lead_time_days, NormPpf(service_level))

\* The page's own calculator: the dict it returns, or the exception.
page_calculate_inventory_metrics(avg_demand_per_day, lead_time_days, demand_std_dev, service_level) ==
  PageMetricsFrom(SafetyStockRaw(NormPpf(service_level), demand_std_dev, lead_time_days),
                  avg_demand_per_day * lead_time_days, NormPpf(service_level))

(***************************************************************************)
(* SpecCalc: calculate_inventory_metrics called on arbitrary arguments     *)
(***************************************************************************)
AvgInputs == {1, 25, 79}
LeadInputs == {1, 16, 44}
StdInputs == {0, 60, 153}
ServiceLevels == {-100, 0, 50, 250, 500, 950, 990, 1000, 1500}

NoCall ==
  [made |-> FALSE,
   args |-> [avg |-> 0, lead |-> 0, std |-> 0, sl |-> 0],
   ret |-> [safety_stock |-> 0, reorder_point |-> 0],
   printed |-> FALSE]

\* The parts of the state a specification leaves at rest.
NoClassification ==
  [made |-> FALSE, stock |-> 0, reorder |-> 0, status |-> "", app_status |-> "",
   item_status |-> "", page_status |-> "", alert |-> ""]

NoSummary ==
  [done |-> FALSE, rows |-> <<>>, columns |-> <<>>, warned |-> FALSE, error |-> FALSE]

CalcIdle == lastCall = NoCall
ClsIdle == clsCall = NoClassification
AggIdle == full_inventory = <<>> /\ summary = NoSummary
GenIdle ==
  /\ rng = 0 /\ mtOut = <<>> /\ otherDraws = 0
  /\ pc = <<>> /\ kind = <<>> /\ idx = <<>> /\ loc = <<>>
  /\ data = <<>> /\ ret = <<>> /\ dash = <<>>

NoSession == [keys |-> {}, forecast_df |-> <<>>, model |-> <<>>, periods |-> 0]

FcIdle ==
  /\ history = <<>> /\ slider = <<>> /\ session = NoSession
  /\ disk = <<>> /\ shown = <<>> /\ clickLog = <<>>

InitCalc == lastCall = NoCall /\ ClsIdle /\ AggIdle /\ GenIdle /\ FcIdle

CallRecord(a, l, s, q, r) ==
  [made |-> TRUE, args |-> [avg |-> a, lead |-> l, std |-> s, sl |-> q],
   ret |-> r.ret, printed |-> r.printed]

CallMetrics(a, l, s, q) ==
  /\ lastCall' = CallRecord(a, l, s, q, calculate_inventory_metrics(a, l, s, q))
  /\ UNCHANGED <<clsVars, aggVars, genVars, fcVars>>

NextCalc ==
  \E a \in AvgInputs, l \in LeadInputs, s \in StdInputs, q \in ServiceLevels :
    CallMetrics(a, l, s, q)

SpecCalc == InitCalc /\ [][NextCalc]_vars

ValidArgs(c) ==
  /\ c.made
  /\ c.args.avg > 0 /\ c.args.lead > 0 /\ c.args.std >= 0
  /\ c.args.sl > 0 /\ c.args.sl < 1000

\* What calculate_inventory_metrics returns on the valid arguments above.
GenuineResults ==
  {calculate_inventory_metrics(a, l, s, q).ret :
     a \in AvgInputs, l \in LeadInputs, s \in StdInputs,
     q \in {x \in ServiceLevels : x > 0 /\ x < 1000}}

\* C5: on valid arguments (service level anywhere in (0,1), below 0.5
\* included) safety_stock and reorder_point are integers with
\* reorder_point >= safety_stock >= 0.
C5_MetricsOrdered ==
  ValidArgs(lastCall) =>
    /\ lastCall.ret.safety_stock \in Int
    /\ lastCall.ret.reorder_point \in Int
    /\ lastCall.ret.safety_stock >= 0
    /\ lastCall.ret.reorder_point >= lastCall.ret.safety_stock

\* A valid call with a negative z-score (service level below 0.5) and a
\* positive deviation has returned.
C5_NegativeZReturned ==
  /\ ValidArgs(lastCall)
  /\ lastCall.args.sl < 500 /\ lastCall.args.std > 0
  /\ lastCall.ret.safety_stock = 0
  /\ lastCall.ret.reorder_point > 0

\* C6: on valid arguments with integer demand, at every service level in
\* (0,1), reorder_point = avg_demand_per_day * lead_time_days + the returned
\* safety_stock.
C6_ReorderIsDemandPlusSafety ==
  ValidArgs(lastCall) =>
    lastCall.ret.reorder_point =
      lastCall.args.avg * lastCall.args.lead + lastCall.ret.safety_stock

\* C7: every service level outside (0,1) comes back as the fallback pair
\* (100, 500).
C7_InvalidLevelFallsBack ==
  (lastCall.made /\ (lastCall.args.sl <= 0 \/ lastCall.args.sl >= 1000)) =>
    lastCall.ret = FallbackMetrics

\* C8: the result of a call with an invalid service level is one no valid
\* call returns, and is never the pair (0, 0).
C8_FailureDistinguishable ==
  (lastCall.made /\ (lastCall.args.sl <= 0 \/ lastCall.args.sl >= 1000)) =>
    /\ lastCall.ret \notin GenuineResults
    /\ lastCall.ret # [safety_stock |-> 0, reorder_point |-> 0]

(***************************************************************************)
(* The status classifier                                                   *)
(***************************************************************************)
\* Faulty variant: a stock exactly at the reorder point no longer counts as In Stock.
calc_status_strict(stock, reorder) ==
  IF stock > reorder THEN "(green) In Stock"
  ELSE IF 2 * stock < reorder THEN "(red) Critical"
  ELSE "(yellow) Low Stock"

\* calc_status of get_dashboard_summary.  reorder * 0.5 is exact in floating
\* point, so stock < reorder * 0.5 is 2 * stock < reorder.  The coloured
\* circle that starts each label is written as a word.
calc_status(stock, reorder) ==
  IF stock >= reorder THEN "(green) In Stock"
  ELSE IF 2 * stock < reorder THEN "(red) Critical"
  ELSE "(yellow) Low Stock"

\* calculate_status of app.py, the same text again.
calculate_status(stock, reorder) ==
  IF stock >= reorder THEN "(green) In Stock"
  ELSE IF 2 * stock < reorder THEN "(red) Critical"
  ELSE "(yellow) Low Stock"

\* Faulty variant: a stock of exactly half the reorder point counted as Critical.
ItemStatusAtHalf(current_stock, reorder_point) ==
  IF 2 * current_stock <= reorder_point THEN "Critical"
  ELSE IF current_stock < reorder_point THEN "Low Stock"
  ELSE "In Stock"

\* The item-level status load_full_inventory assigns.
ItemStatus(current_stock, reorder_point) ==
  IF 2 * current_stock < reorder_point THEN "Critical"
  ELSE IF current_stock < reorder_point THEN "Low Stock"
  ELSE "In Stock"

\* The item-level status the inventory page's load_inventory assigns.
PageItemStatus(current_stock, reorder_point) ==
  IF 2 * current_stock < reorder_point THEN "Critical"
  ELSE IF current_stock < reorder_point THEN "Low Stock"
  ELSE "In Stock"

\* The home page's Smart Alerts for one summary row: the rows with
\* Stock < Reorder_Point are listed, as CRITICAL when
\* Stock < Reorder_Point * 0.5 and as LOW STOCK otherwise.
SmartAlert(stock, reorder) ==
  IF stock < reorder
  THEN IF 2 * stock < reorder THEN "CRITICAL" ELSE "LOW STOCK"
  ELSE "none"

(***************************************************************************)
(* get_dashboard_summary: groupby('Material').agg(sum, max) and the status *)
(***************************************************************************)
\* The loader's list of materials.
materials == <<"Steel", "Cement", "Conductors", "Equipment">>

\* groupby sorts its keys: the material names in lexicographic order.
SortedMaterials == <<"Cement", "Conductors", "Equipment", "Steel">>

IsKey(df, m) ==
  \E k \in DOMAIN df : df[k].Material = m

SameMaterial(m, r) == r.Material = m

GroupOf(df, m) ==
  SelectSeq(df, LAMBDA r : SameMaterial(m, r))

\* Faulty variant: Current_Stock aggregated with 'max' instead of 'sum'.
AggSumAsMax(group) ==
  IF group = <<>> THEN 0
  ELSE CHOOSE v \in {group[k].Current_Stock : k \in DOMAIN group} :
         \A k \in DOMAIN group : group[k].Current_Stock <= v

RECURSIVE AggSum(_)
AggSum(group) ==
  IF group = <<>> THEN 0 ELSE Head(group).Current_Stock + AggSum(Tail(group))

Larger(a, b) == IF a >= b THEN a ELSE b

\* Faulty variant: Reorder_Point aggregated with 'last' instead of 'max'.
AggMaxAsLast(group) == group[Len(group)].Reorder_Point

RECURSIVE AggMax(_)
AggMax(group) ==
  IF Len(group) = 1 THEN group[1].Reorder_Point
  ELSE Larger(group[1].Reorder_Point, AggMax(Tail(group)))

\* One row of the summary, from the aggregated pair.
SummaryRow(m, stock, reorder) ==
  [Material |-> m, Stock |-> stock, Reorder_Point |-> reorder,
   Status |-> calc_status(stock, reorder)]

\* Faulty variant: the status voted from the members' own Status values, the worst
\* one winning.
GroupRowByMembers(df, m) ==
  [Material |-> m, Stock |-> AggSum(GroupOf(df, m)),
   Reorder_Point |-> AggMax(GroupOf(df, m)),
   Status |-> IF \E k \in DOMAIN df : df[k].Material = m /\ df[k].Status = "Critical"
              THEN "(red) Critical"
              ELSE IF \E k \in DOMAIN df : df[k].Material = m /\ df[k].Status = "Low Stock"
              THEN "(yellow) Low Stock"
              ELSE "(green) In Stock"]

GroupRow(df, m) ==
  SummaryRow(m, AggSum(GroupOf(df, m)),
             AggMax(GroupOf(df, m)))

RECURSIVE GroupRows(_, _)
GroupRows(df, keys) ==
  IF keys = <<>> THEN <<>>
  ELSE IF IsKey(df, Head(keys))
       THEN <<GroupRow(df, Head(keys))>>
              \o GroupRows(df, Tail(keys))
       ELSE GroupRows(df, Tail(keys))

\* The distinct materials of a frame in the order they first appear.
RECURSIVE FirstSeen(_, _)
FirstSeen(df, seen) ==
  IF df = <<>> THEN <<>>
  ELSE IF Head(df).Material \in seen THEN FirstSeen(Tail(df), seen)
  ELSE <<Head(df).Material>> \o FirstSeen(Tail(df), seen \cup {Head(df).Material})

\* Faulty variant: groupby(..., sort=False), the groups kept in first-seen order.
DashboardSummaryUnsorted(df) ==
  IF df = <<>> THEN <<>>
  ELSE GroupRows(df, FirstSeen(df, {}))

\* The summary of an item DataFrame: empty for an empty frame, else one row
\* per group in key order.
DashboardSummary(df) ==
  IF df = <<>> THEN <<>>
  ELSE GroupRows(df, SortedMaterials)

SummaryColumns == <<"Material", "Stock", "Reorder_Point", "Status">>

\* Faulty variant: the test for an empty frame left out.  apply(axis=1) on a frame
\* without rows gives a frame, not a column; the assignment to 'Status'
\* raises and the except branch prints the error and returns the empty frame.
SummaryFrameUnguarded(df) ==
  [columns |-> SummaryColumns, rows |-> DashboardSummary(df),
   warned |-> FALSE, error |-> (df = <<>>)]

\* What get_dashboard_summary returns for the frame the loader gave it, with
\* whether it printed its warning line and whether its except branch ran.
SummaryFrame(df) ==
  IF df = <<>>
  THEN [columns |-> SummaryColumns, rows |-> <<>>, warned |-> TRUE, error |-> FALSE]
  ELSE [columns |-> SummaryColumns, rows |-> DashboardSummary(df),
        warned |-> FALSE, error |-> FALSE]

(***************************************************************************)
(* SpecClassify: the two classifiers applied to arbitrary pairs            *)
(***************************************************************************)
MaxStock == 12
MaxReorder == 12

InitClassify == clsCall = NoClassification /\ CalcIdle /\ AggIdle /\ GenIdle /\ FcIdle

Classify(stock, reorder) ==
  /\ clsCall' = [made |-> TRUE, stock |-> stock, reorder |-> reorder,
                 status |-> calc_status(stock, reorder),
                 app_status |-> calculate_status(stock, reorder),
                 item_status |-> ItemStatus(stock, reorder),
                 page_status |-> PageItemStatus(stock, reorder),
                 alert |-> SmartAlert(stock, reorder)]
  /\ UNCHANGED <<calcVars, aggVars, genVars, fcVars>>

NextClassify ==
  \E stock \in 0..MaxStock, reorder \in 0..MaxReorder : Classify(stock, reorder)

SpecClassify == InitClassify /\ [][NextClassify]_vars

\* The rule of the classifier as a relation between a pair and a label.
Classified(stock, reorder, status) ==
  /\ status \in {"(green) In Stock", "(yellow) Low Stock", "(red) Critical"}
  /\ (status = "(green) In Stock") <=> (reorder <= stock)
  /\ (status = "(red) Critical") <=> (stock < reorder /\ stock + stock < reorder)

\* C1: both classifiers give every pair of non-negative integers exactly
\* one label: In Stock when stock >= reorder_point, else Critical when stock
\* is below half the reorder point, else Low Stock; stock = reorder_point
\* and reorder_point = 0 are In Stock.
C1_ClassifierRule ==
  clsCall.made =>
    /\ Classified(clsCall.stock, clsCall.reorder, clsCall.status)
    /\ Classified(clsCall.stock, clsCall.reorder, clsCall.app_status)
    /\ (clsCall.stock = clsCall.reorder \/ clsCall.reorder = 0) =>
         /\ clsCall.status = "(green) In Stock"
         /\ clsCall.app_status = "(green) In Stock"

\* A pair with stock exactly at a positive reorder point has been classified.
C1_AtReorderPoint ==
  /\ clsCall.made
  /\ clsCall.stock = clsCall.reorder /\ clsCall.reorder > 0
  /\ clsCall.status = "(green) In Stock"

\* The summary label that goes with an item-level label.
SummaryLabel(status) ==
  CASE status = "In Stock"  -> "(green) In Stock"
    [] status = "Low Stock" -> "(yellow) Low Stock"
    [] status = "Critical"  -> "(red) Critical"
    [] OTHER -> "none"

\* C17: for every pair of non-negative integers the item-level status of
\* both generators is the class calc_status gives, a material is listed by
\* the Smart Alerts exactly when calc_status is not In Stock, and listed as
\* CRITICAL exactly when calc_status is Critical.
C17_StatusSitesAgree ==
  clsCall.made =>
    /\ SummaryLabel(clsCall.item_status) = clsCall.status
    /\ SummaryLabel(clsCall.page_status) = clsCall.status
    /\ (clsCall.alert # "none") <=> (clsCall.status # "(green) In Stock")
    /\ (clsCall.alert = "CRITICAL") <=> (clsCall.status = "(red) Critical")

\* A pair with the stock at exactly half a positive reorder point has been
\* classified: Low Stock at every site, listed but not CRITICAL.
C17_AtHalfReorderPoint ==
  /\ clsCall.made
  /\ clsCall.reorder > 0 /\ 2 * clsCall.stock = clsCall.reorder
  /\ clsCall.item_status = "Low Stock"
  /\ clsCall.status = "(yellow) Low Stock"
  /\ clsCall.alert = "LOW STOCK"

(***************************************************************************)
(* SpecAgg: the aggregation applied to arbitrary item frames               *)
(***************************************************************************)
MaxItems == 3
AggMaterials == {"Steel", "Cement"}
StockInputs == {30, 40, 70, 110}
ReorderInputs == {100, 120}

AggItems ==
  {[Material |-> m, Current_Stock |-> s, Reorder_Point |-> r,
    Status |-> ItemStatus(s, r)] :
     m \in AggMaterials, s \in StockInputs, r \in ReorderInputs}

InitAgg ==
  /\ full_inventory \in UNION {[1..n -> AggItems] : n \in 0..MaxItems}
  /\ summary = NoSummary
  /\ CalcIdle /\ ClsIdle /\ GenIdle /\ FcIdle

Summarize ==
  /\ ~summary.done
  /\ summary' = [done |-> TRUE,
                 rows |-> SummaryFrame(full_inventory).rows,
                 columns |-> SummaryFrame(full_inventory).columns,
                 warned |-> SummaryFrame(full_inventory).warned,
                 error |-> SummaryFrame(full_inventory).error]
  /\ UNCHANGED <<full_inventory, calcVars, clsVars, genVars, fcVars>>

NextAgg == Summarize

SpecAgg == InitAgg /\ [][NextAgg]_vars

\* The members of a category in a frame, their summed stock and their
\* largest reorder point, stated over index sets.
Members(df, m) == {k \in DOMAIN df : df[k].Material = m}

RECURSIVE StockOver(_, _)
StockOver(df, S) ==
  IF S = {} THEN 0
  ELSE df[CHOOSE k \in S : TRUE].Current_Stock
         + StockOver(df, S \ {CHOOSE k \in S : TRUE})

MaxReorderOver(df, S) ==
  CHOOSE v \in {df[k].Reorder_Point : k \in S} :
    \A k \in S : df[k].Reorder_Point <= v

MemberStatuses(df, S) == {df[k].Status : k \in S}

\* C2: one summary row per distinct Material of the items, none invented
\* and none dropped; each row's Stock is the sum of its members'
\* Current_Stock, its Reorder_Point their largest Reorder_Point, and its
\* Status the classifier's label for that pair.
C2_OneRowPerMaterial ==
  summary.done =>
    /\ {summary.rows[k].Material : k \in DOMAIN summary.rows}
         = {full_inventory[k].Material : k \in DOMAIN full_inventory}
    /\ \A j, k \in DOMAIN summary.rows :
         j # k => summary.rows[j].Material # summary.rows[k].Material
    /\ \A k \in DOMAIN summary.rows :
         /\ summary.rows[k].Stock
              = StockOver(full_inventory, Members(full_inventory, summary.rows[k].Material))
         /\ summary.rows[k].Reorder_Point
              = MaxReorderOver(full_inventory, Members(full_inventory, summary.rows[k].Material))
         /\ Classified(summary.rows[k].Stock, summary.rows[k].Reorder_Point,
                       summary.rows[k].Status)

\* Two categories were summarized, one of them holding two items with
\* different reorder points.
C2_TwoGroupsSummarized ==
  /\ summary.done
  /\ Len(summary.rows) = 2
  /\ \E j, k \in DOMAIN full_inventory :
       /\ j # k
       /\ full_inventory[j].Material = full_inventory[k].Material
       /\ full_inventory[j].Reorder_Point < full_inventory[k].Reorder_Point

\* Every one-category item set the aggregation can be given, with what it
\* is summarized to.
OtherPasses ==
  {[Material |-> g[1].Material,
    stock |-> StockOver(g, DOMAIN g),
    reorder |-> MaxReorderOver(g, DOMAIN g),
    statuses |-> MemberStatuses(g, DOMAIN g),
    status |-> DashboardSummary(g)[1].Status] :
     g \in UNION {[1..n -> {it \in AggItems : it.Material = m}] :
                    n \in 1..MaxItems, m \in AggMaterials}}

\* Another item set of the row's category with the same summed stock and
\* the same largest reorder point.
SamePair(o, df, m) ==
  /\ o.Material = m
  /\ o.stock = StockOver(df, Members(df, m))
  /\ o.reorder = MaxReorderOver(df, Members(df, m))

\* C3: a row's status is fixed by (summed stock, largest reorder point):
\* any other item set of the category with the same pair is summarized to
\* the same status whatever its members' statuses, and a category holding
\* a Critical and an In Stock item is In Stock once the summed stock
\* reaches the largest reorder point.
C3_StatusFromPairOnly ==
  summary.done =>
    \A k \in DOMAIN summary.rows :
      /\ \A o \in OtherPasses :
           SamePair(o, full_inventory, summary.rows[k].Material)
             => o.status = summary.rows[k].Status
      /\ ( /\ {"Critical", "In Stock"} \subseteq
                MemberStatuses(full_inventory,
                               Members(full_inventory, summary.rows[k].Material))
           /\ StockOver(full_inventory, Members(full_inventory, summary.rows[k].Material))
                >= MaxReorderOver(full_inventory,
                                  Members(full_inventory, summary.rows[k].Material)) )
           => summary.rows[k].Status = "(green) In Stock"

\* A category with one Critical and one In Stock item was summarized to
\* In Stock, and another item set with the same pair has different member
\* statuses.
C3_MixedGroupInStock ==
  /\ summary.done
  /\ \E k \in DOMAIN summary.rows :
       /\ summary.rows[k].Status = "(green) In Stock"
       /\ MemberStatuses(full_inventory,
                         Members(full_inventory, summary.rows[k].Material))
            = {"Critical", "In Stock"}
       /\ \E o \in OtherPasses :
            /\ SamePair(o, full_inventory, summary.rows[k].Material)
            /\ o.statuses = {"Low Stock"}

\* The example of the aggregation test: two items of one category with
\* (stock 30, reorder point 100) and (stock 40, reorder point 120).
SpecExample ==
  /\ summary.done
  /\ Len(full_inventory) = 2
  /\ full_inventory[1].Material = full_inventory[2].Material
  /\ full_inventory[1].Current_Stock = 30 /\ full_inventory[1].Reorder_Point = 100
  /\ full_inventory[2].Current_Stock = 40 /\ full_inventory[2].Reorder_Point = 120

\* C4 as stated: the example is summarized to stock 70, reorder point 120,
\* status Critical.
C4_ExampleCritical ==
  SpecExample =>
    /\ Len(summary.rows) = 1
    /\ summary.rows[1].Stock = 70
    /\ summary.rows[1].Reorder_Point = 120
    /\ summary.rows[1].Status = "(red) Critical"

\* C4 amended: the example is summarized to stock 70, reorder point 120,
\* status Low Stock (70 is not below half of 120).
C4_ExampleLowStock ==
  SpecExample =>
    /\ Len(summary.rows) = 1
    /\ summary.rows[1].Stock = 70
    /\ summary.rows[1].Reorder_Point = 120
    /\ summary.rows[1].Status = "(yellow) Low Stock"

\* The example has been summarized.
C4_ExampleSummarized == SpecExample /\ Len(summary.rows) = 1

\* The material names of a summary's rows, in row order.
RowMaterials(rows) == [k \in DOMAIN rows |-> rows[k].Material]

\* The place of a material name in ascending string order.
Rank(m) == CHOOSE k \in DOMAIN SortedMaterials : SortedMaterials[k] = m

\* One item of each of the loader's materials, in the loader's order.
OnePerMaterial ==
  [k \in DOMAIN materials |->
     [Material |-> materials[k], Current_Stock |-> 110, Reorder_Point |-> 100,
      Status |-> ItemStatus(110, 100)]]

\* C13 as stated: the summary's rows are in the order their categories are
\* first seen in the items; for the loader's materials that is Steel,
\* Cement, Conductors, Equipment.
C13_RowsInFirstSeenOrder ==
  summary.done =>
    /\ RowMaterials(summary.rows) = FirstSeen(full_inventory, {})
    /\ RowMaterials(DashboardSummary(OnePerMaterial))
         = <<"Steel", "Cement", "Conductors", "Equipment">>

\* C13 amended: the summary's rows are in ascending order of category name,
\* wherever the categories stand in the items; for the loader's materials
\* that is Cement, Conductors, Equipment, Steel.
C13_RowsInNameOrder ==
  summary.done =>
    /\ \A j, k \in DOMAIN summary.rows :
         j < k => Rank(summary.rows[j].Material) < Rank(summary.rows[k].Material)
    /\ RowMaterials(DashboardSummary(OnePerMaterial))
         = <<"Cement", "Conductors", "Equipment", "Steel">>

\* A frame whose first item is Steel and which also holds Cement was
\* summarized: Cement's row comes first.
C13_SteelSeenFirst ==
  /\ summary.done
  /\ Len(full_inventory) >= 2
  /\ full_inventory[1].Material = "Steel"
  /\ RowMaterials(summary.rows) = <<"Cement", "Steel">>

\* C14: an empty item set is summarized to a frame without rows that has
\* the columns Material, Stock, Reorder_Point, Status, with no error
\* reported; and no summary row is of a category without items.
C14_EmptyInEmptyOut ==
  summary.done =>
    /\ full_inventory = <<>> =>
         /\ summary.rows = <<>>
         /\ summary.columns = <<"Material", "Stock", "Reorder_Point", "Status">>
         /\ ~summary.error
    /\ \A k \in DOMAIN summary.rows :
         \E i \in DOMAIN full_inventory :
           full_inventory[i].Material = summary.rows[k].Material

\* The empty item set has been summarized.
C14_EmptySummarized ==
  /\ summary.done
  /\ full_inventory = <<>>
  /\ summary.rows = <<>>
  /\ Len(summary.columns) = 4

(***************************************************************************)
(* numpy's process-wide generator                                          *)
(*                                                                         *)
(* np.random is one generator shared by the whole process: a finite state  *)
(* machine that steps on every draw.  Here it has Period states in one     *)
(* cycle and yields mtOut[state], a number in 0..RawMax; mtOut is unknown  *)
(* and fixed for a behaviour.  seed(n) puts it in a state that depends on  *)
(* n alone.                                                                *)
(***************************************************************************)
Period == 3
RawMax == 1
MaxOtherDraws == 2

SeedValue == 42
SKUsPerMaterial == 5
AvgLow == 20
AvgHigh == 80
LeadLow == 15
LeadHigh == 45
DefaultServiceLevel == 950
CostLow == 50
CostHigh == 500
SupplierCount == 5

\* Faulty variant: the seed call left out, the generator staying where it was.
NpRandomSeedMissing(state, seed) == state

\* np.random.seed(seed)
NpRandomSeed(state, seed) == seed % Period

\* The generator's state after one draw.
RngStep(state) == (state + 1) % Period

\* np.random.randint(low, high) from the raw output: a value in low..high-1.
RandInt(raw, low, high) == low + (raw * (high - 1 - low)) \div RawMax

\* round(np.random.uniform(low, high), 2), in cents: low + (high - low) * u
\* with u = raw / (RawMax + 1) in [0, 1).
UniformCents(raw, low, high) ==
  100 * low + (100 * (high - low) * raw) \div (RawMax + 1)

(***************************************************************************)
(* load_full_inventory                                                     *)
(***************************************************************************)
Suppliers == <<"Supplier A", "Supplier B", "Supplier C", "Supplier D", "Supplier E">>

\* The percentage of the reorder point each Cement and Equipment SKU is
\* stocked at, by j.
CementPct == <<30, 50, 60, 70, 65>>
EquipmentPct == <<20, 30, 35, 40, 25>>

RECURSIVE Pow2Floor(_)
Pow2Floor(n) == IF n < 2 THEN 1 ELSE 2 * Pow2Floor(n \div 2)

\* int(n * 0.7) and int(n * 0.35) fall one short of the exact product when
\* that product is an integer in the upper quarter of its binade: the
\* doubles 0.7 and 0.35 lie below the decimals and the product rounds down.
FloatSlip(n, pct) ==
  /\ pct \in {35, 70}
  /\ (n * pct) % 100 = 0
  /\ n > 0
  /\ 4 * ((n * pct) \div 100) > 7 * Pow2Floor((n * pct) \div 100)

\* int(n * 0.pct) for the factors the loader uses (pct = 120 is 1.2).
IntTimes(n, pct) ==
  IF FloatSlip(n, pct) THEN (n * pct) \div 100 - 1 ELSE (n * pct) \div 100

Calls == {1, 2}

NoLocals ==
  [avg_daily_demand |-> 0, lead_time_days |-> 0, safety_stock |-> 0,
   reorder_point |-> 0, current_stock |-> 0, status |-> "", unit_cost |-> 0]

\* The dict appended to data.
ItemRecord(i, j, l, supplier) ==
  [Material_ID |-> <<"M", i, j>>,
   Material |-> materials[i + 1],
   Current_Stock |-> l.current_stock,
   Reorder_Point |-> l.reorder_point,
   Safety_Stock |-> l.safety_stock,
   Avg_Daily_Demand |-> l.avg_daily_demand,
   Lead_Time_Days |-> l.lead_time_days,
   Unit_Cost |-> l.unit_cost,
   Supplier |-> supplier,
   Status |-> l.status,
   Service_Level |-> "95%"]

NoCallActive == \A c \in Calls : pc[c] \in {"idle", "done"}

InitGen ==
  /\ rng \in 0..(Period - 1)
  /\ mtOut \in [0..(Period - 1) -> 0..RawMax]
  /\ otherDraws = 0
  /\ pc = [c \in Calls |-> "idle"]
  /\ kind = [c \in Calls |-> "none"]
  /\ idx = [c \in Calls |-> <<0, 0>>]
  /\ loc = [c \in Calls |-> NoLocals]
  /\ data = [c \in Calls |-> <<>>]
  /\ ret = [c \in Calls |-> <<>>]
  /\ dash = [c \in Calls |-> <<>>]

Init == InitGen /\ CalcIdle /\ ClsIdle /\ AggIdle /\ FcIdle

\* Between the two calls, code other than the loader draws from np.random.
\* (What was drawn before the first call is Init's choice of rng.)
OtherDraw ==
  /\ pc[1] = "done" /\ pc[2] = "idle"
  /\ otherDraws < MaxOtherDraws
  /\ rng' = RngStep(rng)
  /\ otherDraws' = otherDraws + 1
  /\ UNCHANGED <<calcVars, clsVars, aggVars, fcVars, mtOut, pc, kind, idx, loc, data, ret, dash>>

\* load_full_inventory is entered, directly or from get_dashboard_summary.
\* The calls of one process follow each other.
Enter(c, k) ==
  /\ pc[c] = "idle"
  /\ NoCallActive
  /\ c = 1 \/ pc[1] = "done"
  /\ pc' = [pc EXCEPT ![c] = "seed"]
  /\ kind' = [kind EXCEPT ![c] = k]
  /\ data' = [data EXCEPT ![c] = <<>>]
  /\ UNCHANGED <<calcVars, clsVars, aggVars, fcVars, rng, mtOut, otherDraws, idx, loc, ret, dash>>

\* np.random.seed(42)
Seed(c) ==
  /\ pc[c] = "seed"
  /\ rng' = NpRandomSeed(rng, SeedValue)
  /\ idx' = [idx EXCEPT ![c] = <<0, 0>>]
  /\ pc' = [pc EXCEPT ![c] = "avg"]
  /\ UNCHANGED <<calcVars, clsVars, aggVars, fcVars, mtOut, otherDraws, kind, loc, data, ret, dash>>

\* avg_daily_demand = np.random.randint(20, 80)
DrawAvg(c) ==
  /\ pc[c] = "avg"
  /\ loc' = [loc EXCEPT ![c] =
               [NoLocals EXCEPT !.avg_daily_demand = RandInt(mtOut[rng], AvgLow, AvgHigh)]]
  /\ rng' = RngStep(rng)
  /\ pc' = [pc EXCEPT ![c] = "lead"]
  /\ UNCHANGED <<calcVars, clsVars, aggVars, fcVars, mtOut, otherDraws, kind, idx, data, ret, dash>>

\* The locals once the metrics are known: for Cement and Equipment the
\* stock is a fixed share of the reorder point and the status follows; for
\* the others the stock is still to be drawn.
WithMetrics(l, lead, metrics, i, j) ==
  [l EXCEPT
     !.lead_time_days = lead,
     !.safety_stock = metrics.safety_stock,
     !.reorder_point = metrics.reorder_point,
     !.current_stock =
        IF materials[i + 1] = "Cement"
        THEN IntTimes(metrics.reorder_point, CementPct[j + 1])
        ELSE IF materials[i + 1] = "Equipment"
        THEN IntTimes(metrics.reorder_point, EquipmentPct[j + 1])
        ELSE 0,
     !.status =
        IF materials[i + 1] = "Cement"
        THEN ItemStatus(IntTimes(metrics.reorder_point, CementPct[j + 1]),
                        metrics.reorder_point)
        ELSE IF materials[i + 1] = "Equipment"
        THEN ItemStatus(IntTimes(metrics.reorder_point, EquipmentPct[j + 1]),
                        metrics.reorder_point)
        ELSE ""]

\* lead_time_days = np.random.randint(15, 45), demand_std_dev =
\* avg_daily_demand * 0.3 (3 * avg in tenths), the metrics, and the stock of
\* a Cement or Equipment SKU.
DrawLead(c) ==
  /\ pc[c] = "lead"
  /\ loc' = [loc EXCEPT ![c] =
       WithMetrics(loc[c], RandInt(mtOut[rng], LeadLow, LeadHigh),
                   calculate_inventory_metrics(
                       loc[c].avg_daily_demand,
                       RandInt(mtOut[rng], LeadLow, LeadHigh),
                       3 * loc[c].avg_daily_demand,
                       DefaultServiceLevel).ret,
                   idx[c][1], idx[c][2])]
  /\ rng' = RngStep(rng)
  /\ pc' = [pc EXCEPT ![c] =
              IF materials[idx[c][1] + 1] \in {"Cement", "Equipment"}
              THEN "cost" ELSE "stock"]
  /\ UNCHANGED <<calcVars, clsVars, aggVars, fcVars, mtOut, otherDraws, kind, idx, data, ret, dash>>

WithStock(l, stock) ==
  [l EXCEPT !.current_stock = stock,
            !.status = ItemStatus(stock, l.reorder_point)]

\* current_stock = np.random.randint(int(reorder_point * 1.2),
\* int(reorder_point * 2.5)) for Steel and Conductors, then the status.
DrawStock(c) ==
  /\ pc[c] = "stock"
  /\ loc' = [loc EXCEPT ![c] =
       WithStock(loc[c], RandInt(mtOut[rng], IntTimes(loc[c].reorder_point, 120),
                                 IntTimes(loc[c].reorder_point, 250)))]
  /\ rng' = RngStep(rng)
  /\ pc' = [pc EXCEPT ![c] = "cost"]
  /\ UNCHANGED <<calcVars, clsVars, aggVars, fcVars, mtOut, otherDraws, kind, idx, data, ret, dash>>

\* 'Unit_Cost': round(np.random.uniform(50, 500), 2)
DrawCost(c) ==
  /\ pc[c] = "cost"
  /\ loc' = [loc EXCEPT ![c].unit_cost = UniformCents(mtOut[rng], CostLow, CostHigh)]
  /\ rng' = RngStep(rng)
  /\ pc' = [pc EXCEPT ![c] = "supplier"]
  /\ UNCHANGED <<calcVars, clsVars, aggVars, fcVars, mtOut, otherDraws, kind, idx, data, ret, dash>>

\* The loop counters after one more SKU.
NextIdx(ij) ==
  IF ij[2] + 1 < SKUsPerMaterial THEN <<ij[1], ij[2] + 1>> ELSE <<ij[1] + 1, 0>>

\* 'Supplier': chr(65 + np.random.randint(0, 5)), data.append(...), and the
\* loops' next iteration or their end.
DrawSupplier(c) ==
  /\ pc[c] = "supplier"
  /\ data' = [data EXCEPT ![c] =
       Append(@, ItemRecord(idx[c][1], idx[c][2], loc[c],
                            Suppliers[RandInt(mtOut[rng], 0, SupplierCount) + 1]))]
  /\ rng' = RngStep(rng)
  /\ idx' = [idx EXCEPT ![c] = NextIdx(@)]
  /\ pc' = [pc EXCEPT ![c] =
              IF NextIdx(idx[c])[1] < Len(materials) THEN "avg" ELSE "built"]
  /\ UNCHANGED <<calcVars, clsVars, aggVars, fcVars, mtOut, otherDraws, kind, loc, ret, dash>>

\* df = pd.DataFrame(data); return df
Return(c) ==
  /\ pc[c] = "built"
  /\ ret' = [ret EXCEPT ![c] = data[c]]
  /\ pc' = [pc EXCEPT ![c] = IF kind[c] = "summary" THEN "summarize" ELSE "done"]
  /\ UNCHANGED <<calcVars, clsVars, aggVars, fcVars, rng, mtOut, otherDraws, kind, idx, loc, data, dash>>

\* The rest of get_dashboard_summary, on the frame the loader returned.
GetDashboardSummary(c) ==
  /\ pc[c] = "summarize"
  /\ dash' = [dash EXCEPT ![c] = DashboardSummary(ret[c])]
  /\ pc' = [pc EXCEPT ![c] = "done"]
  /\ UNCHANGED <<calcVars, clsVars, aggVars, fcVars, rng, mtOut, otherDraws, kind, idx, loc, data, ret>>

(***************************************************************************)
(* load_inventory (pages/3_Inventory_Management.py): the page's own copy   *)
(* of the loader, which calls the page's own calculator.                   *)
(***************************************************************************)
PageSeedValue == 42
PageSKUsPerMaterial == 5
PageAvgLow == 20
PageAvgHigh == 80
PageLeadLow == 15
PageLeadHigh == 45
PageServiceLevel == 950
PageCostLow == 50
PageCostHigh == 500
PageSupplierCount == 5

page_materials == <<"Steel", "Cement", "Conductors", "Equipment">>

PageCementPct == <<30, 50, 60, 70, 65>>
PageEquipmentPct == <<20, 30, 35, 40, 25>>

PageItemRecord(i, j, l, supplier) ==
  [Material_ID |-> <<"M", i, j>>,
   Material |-> page_materials[i + 1],
   Current_Stock |-> l.current_stock,
   Reorder_Point |-> l.reorder_point,
   Safety_Stock |-> l.safety_stock,
   Avg_Daily_Demand |-> l.avg_daily_demand,
   Lead_Time_Days |-> l.lead_time_days,
   Unit_Cost |-> l.unit_cost,
   Supplier |-> supplier,
   Status |-> l.status,
   Service_Level |-> "95%"]

\* The page is opened and load_inventory runs (its cache holds nothing yet).
PageEnter(c) ==
  /\ pc[c] = "idle"
  /\ NoCallActive
  /\ c = 1 \/ pc[1] = "done"
  /\ pc' = [pc EXCEPT ![c] = "p_seed"]
  /\ kind' = [kind EXCEPT ![c] = "page"]
  /\ data' = [data EXCEPT ![c] = <<>>]
  /\ UNCHANGED <<calcVars, clsVars, aggVars, fcVars, rng, mtOut, otherDraws, idx, loc, ret, dash>>

\* np.random.seed(42)
PageSeed(c) ==
  /\ pc[c] = "p_seed"
  /\ rng' = NpRandomSeed(rng, PageSeedValue)
  /\ idx' = [idx EXCEPT ![c] = <<0, 0>>]
  /\ pc' = [pc EXCEPT ![c] = "p_avg"]
  /\ UNCHANGED <<calcVars, clsVars, aggVars, fcVars, mtOut, otherDraws, kind, loc, data, ret, dash>>

\* avg_daily_demand = np.random.randint(20, 80)
PageDrawAvg(c) ==
  /\ pc[c] = "p_avg"
  /\ loc' = [loc EXCEPT ![c] =
               [NoLocals EXCEPT !.avg_daily_demand =
                                   RandInt(mtOut[rng], PageAvgLow, PageAvgHigh)]]
  /\ rng' = RngStep(rng)
  /\ pc' = [pc EXCEPT ![c] = "p_lead"]
  /\ UNCHANGED <<calcVars, clsVars, aggVars, fcVars, mtOut, otherDraws, kind, idx, data, ret, dash>>

\* The page's locals once its metrics are known.
PageWithMetrics(l, lead, metrics, i, j) ==
  [l EXCEPT
     !.lead_time_days = lead,
     !.safety_stock = metrics.safety_stock,
     !.reorder_point = metrics.reorder_point,
     !.current_stock =
        IF page_materials[i + 1] = "Cement"
        THEN IntTimes(metrics.reorder_point, PageCementPct[j + 1])
        ELSE IF page_materials[i + 1] = "Equipment"
        THEN IntTimes(metrics.reorder_point, PageEquipmentPct[j + 1])
        ELSE 0,
     !.status =
        IF page_materials[i + 1] = "Cement"
        THEN PageItemStatus(IntTimes(metrics.reorder_point, PageCementPct[j + 1]),
                            metrics.reorder_point)
        ELSE IF page_materials[i + 1] = "Equipment"
        THEN PageItemStatus(IntTimes(metrics.reorder_point, PageEquipmentPct[j + 1]),
                            metrics.reorder_point)
        ELSE ""]

\* The locals after the lead time is drawn: an exception of the calculator
\* leaves them as they are.
PageAfterLead(l, lead, result, i, j) ==
  IF result.raised # "" THEN l
  ELSE PageWithMetrics(l, lead, result.ret, i, j)

\* lead_time_days = np.random.randint(15, 45), the page's calculator on
\* demand_std_dev = avg_daily_demand * 0.3, and the stock of a Cement or
\* Equipment SKU.  An exception of the calculator ends load_inventory.
PageDrawLead(c) ==
  /\ pc[c] = "p_lead"
  /\ loc' = [loc EXCEPT ![c] =
       PageAfterLead(loc[c], RandInt(mtOut[rng], PageLeadLow, PageLeadHigh),
                     page_calculate_inventory_metrics(
                         loc[c].avg_daily_demand,
                         RandInt(mtOut[rng], PageLeadLow, PageLeadHigh),
                         3 * loc[c].avg_daily_demand,
                         PageServiceLevel),
                     idx[c][1], idx[c][2])]
  /\ rng' = RngStep(rng)
  /\ pc' = [pc EXCEPT ![c] =
              IF page_calculate_inventory_metrics(
                     loc[c].avg_daily_demand,
                     RandInt(mtOut[rng], PageLeadLow, PageLeadHigh),
                     3 * loc[c].avg_daily_demand,
                     PageServiceLevel).raised # ""
              THEN "p_raised"
              ELSE IF page_materials[idx[c][1] + 1] \in {"Cement", "Equipment"}
              THEN "p_cost" ELSE "p_stock"]
  /\ UNCHANGED <<calcVars, clsVars, aggVars, fcVars, mtOut, otherDraws, kind, idx, data, ret, dash>>

PageWithStock(l, stock) ==
  [l EXCEPT !.current_stock = stock,
            !.status = PageItemStatus(stock, l.reorder_point)]

\* current_stock = np.random.randint(int(reorder_point * 1.2),
\* int(reorder_point * 2.5)) for Steel and Conductors, then the status.
PageDrawStock(c) ==
  /\ pc[c] = "p_stock"
  /\ loc' = [loc EXCEPT ![c] =
       PageWithStock(loc[c], RandInt(mtOut[rng], IntTimes(loc[c].reorder_point, 120),
                                     IntTimes(loc[c].reorder_point, 250)))]
  /\ rng' = RngStep(rng)
  /\ pc' = [pc EXCEPT ![c] = "p_cost"]
  /\ UNCHANGED <<calcVars, clsVars, aggVars, fcVars, mtOut, otherDraws, kind, idx, data, ret, dash>>

\* 'Unit_Cost': round(np.random.uniform(50, 500), 2)
PageDrawCost(c) ==
  /\ pc[c] = "p_cost"
  /\ loc' = [loc EXCEPT ![c].unit_cost =
                UniformCents(mtOut[rng], PageCostLow, PageCostHigh)]
  /\ rng' = RngStep(rng)
  /\ pc' = [pc EXCEPT ![c] = "p_supplier"]
  /\ UNCHANGED <<calcVars, clsVars, aggVars, fcVars, mtOut, otherDraws, kind, idx, data, ret, dash>>

PageNextIdx(ij) ==
  IF ij[2] + 1 < PageSKUsPerMaterial THEN <<ij[1], ij[2] + 1>> ELSE <<ij[1] + 1, 0>>

\* 'Supplier': chr(65 + np.random.randint(0, 5)), data.append(...), and the
\* loops' next iteration or their end.
PageDrawSupplier(c) ==
  /\ pc[c] = "p_supplier"
  /\ data' = [data EXCEPT ![c] =
       Append(@, PageItemRecord(idx[c][1], idx[c][2], loc[c],
                                Suppliers[RandInt(mtOut[rng], 0, PageSupplierCount) + 1]))]
  /\ rng' = RngStep(rng)
  /\ idx' = [idx EXCEPT ![c] = PageNextIdx(@)]
  /\ pc' = [pc EXCEPT ![c] =
              IF PageNextIdx(idx[c])[1] < Len(page_materials) THEN "p_avg" ELSE "p_built"]
  /\ UNCHANGED <<calcVars, clsVars, aggVars, fcVars, mtOut, otherDraws, kind, loc, ret, dash>>

\* return pd.DataFrame(data)
PageReturn(c) ==
  /\ pc[c] = "p_built"
  /\ ret' = [ret EXCEPT ![c] = data[c]]
  /\ pc' = [pc EXCEPT ![c] = "done"]
  /\ UNCHANGED <<calcVars, clsVars, aggVars, fcVars, rng, mtOut, otherDraws, kind, idx, loc, data, dash>>

Next ==
  \/ OtherDraw
  \/ \E c \in Calls, k \in {"load", "summary"} : Enter(c, k)
  \/ \E c \in Calls : Seed(c)
  \/ \E c \in Calls : DrawAvg(c)
  \/ \E c \in Calls : DrawLead(c)
  \/ \E c \in Calls : DrawStock(c)
  \/ \E c \in Calls : DrawCost(c)
  \/ \E c \in Calls : DrawSupplier(c)
  \/ \E c \in Calls : Return(c)
  \/ \E c \in Calls : GetDashboardSummary(c)
  \/ \E c \in Calls : PageEnter(c)
  \/ \E c \in Calls : PageSeed(c)
  \/ \E c \in Calls : PageDrawAvg(c)
  \/ \E c \in Calls : PageDrawLead(c)
  \/ \E c \in Calls : PageDrawStock(c)
  \/ \E c \in Calls : PageDrawCost(c)
  \/ \E c \in Calls : PageDrawSupplier(c)
  \/ \E c \in Calls : PageReturn(c)

Spec == Init /\ [][Next]_vars

\* C9: two successive calls of load_full_inventory return the same item
\* records in the same order, whatever was drawn from np.random in between.
C9_SuccessiveLoadsEqual ==
  (pc[1] = "done" /\ pc[2] = "done") => ret[1] = ret[2]

\* Both calls returned their twenty records, with draws by other code
\* between them.
C9_ReloadedAfterOtherDraws ==
  /\ pc[1] = "done" /\ pc[2] = "done"
  /\ otherDraws > 0
  /\ Len(ret[1]) = Len(materials) * SKUsPerMaterial
  /\ Len(ret[2]) = Len(materials) * SKUsPerMaterial

LowOrCritical == {"Low Stock", "Critical", "(yellow) Low Stock", "(red) Critical"}
InStock == {"In Stock", "(green) In Stock"}

\* C10: whatever is drawn, every Cement and Equipment item and both of
\* their summaries are Low Stock or Critical, and every Steel and
\* Conductors item and both of their summaries are In Stock.
C10_BiasReachesSummary ==
  \A c \in Calls :
    (pc[c] = "done" /\ kind[c] = "summary") =>
      /\ \A k \in DOMAIN ret[c] :
           IF ret[c][k].Material \in {"Cement", "Equipment"}
           THEN ret[c][k].Status \in LowOrCritical
           ELSE ret[c][k].Status \in InStock
      /\ \A k \in DOMAIN dash[c] :
           IF dash[c][k].Material \in {"Cement", "Equipment"}
           THEN dash[c][k].Status \in LowOrCritical
           ELSE dash[c][k].Status \in InStock

\* C16: load_inventory returns, row for row, the records
\* load_full_inventory returns, and each row of the dashboard summary holds
\* the sum of Current_Stock and the largest Reorder_Point of its material's
\* rows on the inventory page.
C16_PageMatchesLoader ==
  \A c, d \in Calls :
    (pc[c] = "done" /\ pc[d] = "done" /\ kind[c] = "page" /\ kind[d] # "page") =>
      /\ ret[c] = ret[d]
      /\ kind[d] = "summary" =>
           \A k \in DOMAIN dash[d] :
             /\ dash[d][k].Stock
                  = StockOver(ret[c], Members(ret[c], dash[d][k].Material))
             /\ dash[d][k].Reorder_Point
                  = MaxReorderOver(ret[c], Members(ret[c], dash[d][k].Material))

\* The dashboard summary was computed, then the inventory page loaded its
\* twenty records with the larger draws among them.
C16_SummaryThenPage ==
  /\ pc[1] = "done" /\ pc[2] = "done"
  /\ kind[1] = "summary" /\ kind[2] = "page"
  /\ Len(dash[1]) = Len(materials)
  /\ Len(ret[2]) = Len(page_materials) * PageSKUsPerMaterial
  /\ \E k \in DOMAIN ret[2] : ret[2][k].Avg_Daily_Demand > PageAvgLow

(***************************************************************************)
(* SpecInterleaved: two sessions.  Streamlit runs each session's script in *)
(* a thread of its own, and the threads of one process share np.random.    *)
(* The second session's loader is entered while the first session's call   *)
(* is anywhere in its loop; the first call is held until the second has    *)
(* returned (one preemption, at any point).                                *)
(***************************************************************************)
\* The second session's script reaches load_full_inventory ("load") or the
\* inventory page's load_inventory ("page") while call 1 is running.
EnterDuring(k) ==
  /\ pc[2] = "idle"
  /\ pc[1] \notin {"idle", "done"}
  /\ pc' = [pc EXCEPT ![2] = IF k = "page" THEN "p_seed" ELSE "seed"]
  /\ kind' = [kind EXCEPT ![2] = k]
  /\ data' = [data EXCEPT ![2] = <<>>]
  /\ UNCHANGED <<calcVars, clsVars, aggVars, fcVars, rng, mtOut, otherDraws, idx, loc, ret, dash>>

\* The thread of call c holds the interpreter: call 1 only while call 2 is
\* not under way.
Scheduled(c) == c = 2 \/ pc[2] \in {"idle", "done"}

NextInterleaved ==
  \/ \E k \in {"load", "summary"} : Enter(1, k)
  \/ \E k \in {"load", "page"} : EnterDuring(k)
  \/ \E c \in Calls : Scheduled(c) /\ Seed(c)
  \/ \E c \in Calls : Scheduled(c) /\ DrawAvg(c)
  \/ \E c \in Calls : Scheduled(c) /\ DrawLead(c)
  \/ \E c \in Calls : Scheduled(c) /\ DrawStock(c)
  \/ \E c \in Calls : Scheduled(c) /\ DrawCost(c)
  \/ \E c \in Calls : Scheduled(c) /\ DrawSupplier(c)
  \/ \E c \in Calls : Scheduled(c) /\ Return(c)
  \/ \E c \in Calls : Scheduled(c) /\ GetDashboardSummary(c)
  \/ \E c \in Calls : Scheduled(c) /\ PageSeed(c)
  \/ \E c \in Calls : Scheduled(c) /\ PageDrawAvg(c)
  \/ \E c \in Calls : Scheduled(c) /\ PageDrawLead(c)
  \/ \E c \in Calls : Scheduled(c) /\ PageDrawStock(c)
  \/ \E c \in Calls : Scheduled(c) /\ PageDrawCost(c)
  \/ \E c \in Calls : Scheduled(c) /\ PageDrawSupplier(c)
  \/ \E c \in Calls : Scheduled(c) /\ PageReturn(c)

SpecInterleaved == Init /\ [][NextInterleaved]_vars

\* The generator's state n draws after st.
RngAfter(st, n) == (st + n) % Period

\* Whether the stock of material i's SKUs is drawn.
StockDrawn(i) == materials[i + 1] \notin {"Cement", "Equipment"}

LoneWithLead(l, lead, i, j) ==
  WithMetrics(l, lead,
              calculate_inventory_metrics(l.avg_daily_demand, lead,
                                          3 * l.avg_daily_demand,
                                          DefaultServiceLevel).ret, i, j)

LoneWithStock(l, i, st) ==
  IF StockDrawn(i)
  THEN WithStock(l, RandInt(mtOut[st], IntTimes(l.reorder_point, 120),
                            IntTimes(l.reorder_point, 250)))
  ELSE l

LoneItem(l, i, j, st) ==
  ItemRecord(i, j, [l EXCEPT !.unit_cost = UniformCents(mtOut[st], CostLow, CostHigh)],
             Suppliers[RandInt(mtOut[RngAfter(st, 1)], 0, SupplierCount) + 1])

\* The records a call that no other draw interrupts builds from SKU ij on,
\* the generator being in state st before the SKU's first draw.
RECURSIVE LoneRecords(_, _)
LoneRecords(ij, st) ==
  IF ij[1] >= Len(materials) THEN <<>>
  ELSE <<LoneItem(
           LoneWithStock(
             LoneWithLead([NoLocals EXCEPT !.avg_daily_demand =
                                              RandInt(mtOut[st], AvgLow, AvgHigh)],
                          RandInt(mtOut[RngAfter(st, 1)], LeadLow, LeadHigh),
                          ij[1], ij[2]),
             ij[1], RngAfter(st, 2)),
           ij[1], ij[2],
           RngAfter(st, IF StockDrawn(ij[1]) THEN 3 ELSE 2))>>
       \o LoneRecords(NextIdx(ij),
                      RngAfter(st, IF StockDrawn(ij[1]) THEN 5 ELSE 4))

\* What load_full_inventory returns when it runs alone.
LoneLoad == LoneRecords(<<0, 0>>, NpRandomSeed(0, SeedValue))

\* C15: however the steps of two generator invocations interleave, each
\* returns exactly the records a lone invocation returns.
C15_InterleavedAsLone ==
  (pc[1] = "done" /\ pc[2] = "done") =>
    /\ ret[2] = LoneLoad
    /\ ret[1] = LoneLoad

(***************************************************************************)
(* The demand forecast page (pages/2_Demand_Forecast.py)                   *)
(*                                                                         *)
(* Quantities are in tenths of a unit.  A date is a month number and       *)
(* whether it is the month's last day (else its first).  Prophet is a      *)
(* library outside the repository; it is taken by what it documents: fit   *)
(* is a function of the history and the settings; predict gives a point    *)
(* forecast yhat that is a function of the fitted model and the date, and  *)
(* an interval around it whose ends are percentiles of futures simulated   *)
(* with draws from np.random, the process-wide generator.                  *)
(***************************************************************************)
MaxClicks == 2

MinPeriods == 6
MaxPeriods == 36
DefaultPeriods == 12
MinConfidence == 80
MaxConfidence == 99
DefaultConfidence == 95
FallbackPeriods == 12

\* The slider positions tried.
HorizonChoices == {MinPeriods + 1, DefaultPeriods}
ConfidenceChoices == {MinConfidence, DefaultConfidence}

\* The historical series df.groupby('Date')['Quantity_Procured'].sum() can
\* be: monthly sums dated on the first or on the last day of the month.
Histories ==
  {[y |-> <<5230, 2500, 840>>, monthEnd |-> FALSE],
   [y |-> <<5230, 844>>, monthEnd |-> TRUE],
   [y |-> <<5230>>, monthEnd |-> FALSE]}

Date(month, end) == [month |-> month, end |-> end]

\* Half-months since the start of month 0.
HalfMonths(ds) == 2 * ds.month + (IF ds.end THEN 1 ELSE 0)

DateAfter(a, b) == HalfMonths(a) > HalfMonths(b)

HistoryDates(h) == [k \in 1..Len(h.y) |-> Date(k, h.monthEnd)]

LastDate(h) == Date(Len(h.y), h.monthEnd)

\* The first month end after a date.
FirstMonthEndAfter(ds) == IF ds.end THEN ds.month + 1 ELSE ds.month

\* model.make_future_dataframe(periods, freq='M'): the history's dates, then
\* the first `periods` month ends after the last of them.
MakeFutureDataframe(h, periods) ==
  HistoryDates(h)
    \o [k \in 1..periods |-> Date(FirstMonthEndAfter(LastDate(h)) + k - 1, TRUE)]

MaxOf(S) == CHOOSE v \in S : \A w \in S : w <= v

\* The fitted trend at the i-th point of the history.
FittedAt(y, k, i) == y[Len(y)] + k * 2 * (i - Len(y))

FitSlope(y) == (y[Len(y)] - y[1]) \div (2 * (Len(y) - 1))

\* Prophet(interval_width=confidence/100) and model.fit(forecast_df): a new
\* object, fitted from the history alone; fit raises on fewer than two rows.
\* k is the trend per half-month, sigma the scale of the residuals.
ProphetFit(h, confidence, id) ==
  IF Len(h.y) < 2
  THEN [raised |-> "ValueError", id |-> id, k |-> 0, m |-> 0, sigma |-> 0,
        interval_width |-> confidence, last |-> LastDate(h)]
  ELSE [raised |-> "", id |-> id,
        k |-> FitSlope(h.y),
        m |-> h.y[Len(h.y)],
        sigma |-> MaxOf({Abs(h.y[i] - FittedAt(h.y, FitSlope(h.y), i)) :
                           i \in DOMAIN h.y}),
        interval_width |-> confidence,
        last |-> LastDate(h)]

\* The standard normal quantile at (1 + interval_width) / 2, in tenths: what
\* the percentiles of the simulated futures tend to, in units of sigma.
IntervalZ(confidence) ==
  CASE confidence = 80 -> 13
    [] confidence = 95 -> 20
    [] OTHER -> 26

Yhat(model, ds) == model.m + model.k * (HalfMonths(ds) - HalfMonths(model.last))

\* One row of model.predict(future): the point forecast, and the two ends of
\* the interval, each moved outward by what its simulation drew.
PredictRow(model, ds, raw1, raw2) ==
  [ds |-> ds,
   yhat |-> Yhat(model, ds),
   yhat_lower |-> Yhat(model, ds)
                    - (IntervalZ(model.interval_width) * model.sigma) \div 10 - raw1,
   yhat_upper |-> Yhat(model, ds)
                    + (IntervalZ(model.interval_width) * model.sigma) \div 10 + raw2]

\* model.predict(future), the generator being in state st: two draws a row.
ProphetPredict(model, future, st) ==
  [r \in DOMAIN future |->
     PredictRow(model, future[r],
                mtOut[RngAfter(st, 2 * (r - 1))], mtOut[RngAfter(st, 2 * r - 1)])]

\* forecast.tail(periods)
FrameTail(frame, n) ==
  IF n <= 0 THEN <<>>
  ELSE IF n >= Len(frame) THEN frame
  ELSE SubSeq(frame, Len(frame) - n + 1, Len(frame))

\* Series.astype(int) on a float column: truncation toward zero.
AsTypeInt(x) == IF x < 0 THEN -((-x) \div 10) ELSE x \div 10

\* ds.dt.strftime('%Y-%m'): the month, the day dropped.
StrfYearMonth(ds) == ds.month

\* Faulty variant: the new column names listed as Month, Lower Bound, Forecast,
\* Upper Bound, so that yhat is shown as the lower bound and yhat_lower as
\* the forecast.
ForecastDisplayRowMislabelled(r) ==
  [Month |-> StrfYearMonth(r.ds),
   Forecast |-> AsTypeInt(r.yhat_lower),
   Lower_Bound |-> AsTypeInt(r.yhat),
   Upper_Bound |-> AsTypeInt(r.yhat_upper)]

\* One row of forecast_display.
ForecastDisplayRow(r) ==
  [Month |-> StrfYearMonth(r.ds),
   Forecast |-> AsTypeInt(r.yhat),
   Lower_Bound |-> AsTypeInt(r.yhat_lower),
   Upper_Bound |-> AsTypeInt(r.yhat_upper)]

\* Faulty variant: the display keeps the slider's value instead of reading the
\* stored one.
DisplayPeriodsFromSlider(sess, sl) == sl.periods

\* periods = st.session_state.get('periods', 12)
DisplayPeriods(sess, sl) ==
  IF "periods" \in sess.keys THEN sess.periods ELSE FallbackPeriods

DisplayOf(future_forecast) ==
  [kind |-> "table",
   future_forecast |-> future_forecast,
   table |-> [r \in DOMAIN future_forecast |-> ForecastDisplayRow(future_forecast[r])]]

NothingShown(k) == [kind |-> k, future_forecast |-> <<>>, table |-> <<>>]

\* What one run of the script displays below the button: the chart's and
\* the table's rows, or the hint to click.
ScriptDisplay(sess, sl) ==
  IF "forecast_df" \in sess.keys
  THEN DisplayOf(FrameTail(sess.forecast_df, DisplayPeriods(sess, sl)))
  ELSE NothingShown("info")

InitForecast ==
  /\ history \in Histories
  /\ slider = [periods |-> DefaultPeriods, confidence |-> DefaultConfidence]
  /\ session = NoSession
  /\ disk = <<>>
  /\ shown = NothingShown("info")
  /\ clickLog = <<>>
  /\ rng \in 0..(Period - 1)
  /\ mtOut \in [0..(Period - 1) -> 0..RawMax]
  /\ otherDraws = 0
  /\ pc = <<>> /\ kind = <<>> /\ idx = <<>> /\ loc = <<>>
  /\ data = <<>> /\ ret = <<>> /\ dash = <<>>
  /\ CalcIdle /\ ClsIdle /\ AggIdle

\* The horizon slider is moved; the script runs again without a click.
MoveHorizon(p) ==
  /\ p # slider.periods
  /\ slider' = [slider EXCEPT !.periods = p]
  /\ shown' = ScriptDisplay(session, slider')
  /\ UNCHANGED <<calcVars, clsVars, aggVars, genVars, history, session, disk, clickLog>>

\* The confidence slider is moved; the script runs again without a click.
MoveConfidence(c) ==
  /\ c # slider.confidence
  /\ slider' = [slider EXCEPT !.confidence = c]
  /\ shown' = ScriptDisplay(session, slider')
  /\ UNCHANGED <<calcVars, clsVars, aggVars, genVars, history, session, disk, clickLog>>

\* The page is run again with nothing changed.
Rerun ==
  /\ shown' = ScriptDisplay(session, slider)
  /\ UNCHANGED <<calcVars, clsVars, aggVars, genVars, history, slider, session, disk, clickLog>>

\* The three assignments to st.session_state.
StoreForecast(sess, forecast, model, periods) ==
  [keys |-> sess.keys \cup {"forecast_df", "model", "periods"},
   forecast_df |-> forecast, model |-> model, periods |-> periods]

LogEntry(sl, forecast, model) ==
  [periods |-> sl.periods, confidence |-> sl.confidence,
   forecast |-> forecast, model_id |-> model.id]

\* A click whose fit succeeded: predict, store, pickle, st.rerun().
Generated(model, forecast) ==
  /\ session' = StoreForecast(session, forecast, model, slider.periods)
  /\ disk' = model
  /\ clickLog' = Append(clickLog, LogEntry(slider, forecast, model))
  /\ rng' = RngAfter(rng, 2 * Len(forecast))
  /\ shown' = ScriptDisplay(session', slider)

\* Generate Forecast is clicked: the script runs with the button set.  An
\* exception of fit ends the run before anything is stored.
ClickGenerate ==
  /\ Len(clickLog) < MaxClicks
  /\ IF ProphetFit(history, slider.confidence, Len(clickLog) + 1).raised # ""
     THEN /\ shown' = NothingShown("exception")
          /\ UNCHANGED <<session, disk, clickLog, rng>>
     ELSE Generated(ProphetFit(history, slider.confidence, Len(clickLog) + 1),
                    ProphetPredict(ProphetFit(history, slider.confidence,
                                              Len(clickLog) + 1),
                                   MakeFutureDataframe(history, slider.periods),
                                   rng))
  /\ UNCHANGED <<calcVars, clsVars, aggVars, history, slider,
                 mtOut, otherDraws, pc, kind, idx, loc, data, ret, dash>>

NextForecast ==
  \/ \E p \in HorizonChoices : MoveHorizon(p)
  \/ \E c \in ConfidenceChoices : MoveConfidence(c)
  \/ Rerun
  \/ ClickGenerate

SpecForecast == InitForecast /\ [][NextForecast]_vars

C12_FreshFitSameForecast ==
  /\ \A j \in DOMAIN clickLog : clickLog[j].model_id = j
  /\ clickLog # <<>> =>
       /\ session.model.id = Len(clickLog)
       /\ disk = session.model
  /\ \A j, k \in DOMAIN clickLog :
       (clickLog[j].periods = clickLog[k].periods
          /\ clickLog[j].confidence = clickLog[k].confidence)
         => clickLog[j].forecast = clickLog[k].forecast

\* The session holds what the latest Generate Forecast run made, and the
\* table shown has as many rows as the stored horizon, all dated after the
\* history's last date.
SessionFromLastClick ==
  /\ clickLog = <<>> => (session = NoSession /\ shown.kind # "table")
  /\ clickLog # <<>> =>
       /\ session.keys = {"forecast_df", "model", "periods"}
       /\ session.periods = clickLog[Len(clickLog)].periods
       /\ session.forecast_df = clickLog[Len(clickLog)].forecast
       /\ session.model.id = clickLog[Len(clickLog)].model_id
       /\ session.model.interval_width = clickLog[Len(clickLog)].confidence
       /\ Len(session.forecast_df) = Len(history.y) + session.periods
  /\ shown.kind = "table" =>
       /\ Len(shown.table) = session.periods
       /\ \A r \in DOMAIN shown.future_forecast :
            DateAfter(shown.future_forecast[r].ds, LastDate(history))

\* C18: a step that moves a slider leaves the stored forecast, horizon and
\* model as they were; a click replaces the three by those of its own run;
\* and after every step the three are those of the latest click and the
\* table shown has the stored horizon's number of rows, all after the
\* history's last date.
C18_SessionCoherent ==
  [][ /\ (slider' # slider) => (session' = session)
      /\ (clickLog' # clickLog) =>
           /\ session'.periods = slider.periods
           /\ session'.model.id = Len(clickLog')
           /\ session'.forecast_df = clickLog'[Len(clickLog')].forecast
      /\ SessionFromLastClick' ]_vars

\* After two clicks with different horizons the slider stands elsewhere
\* than the stored horizon, and the table shows the stored horizon's rows.
C18_SliderMovedAfterSecondClick ==
  /\ Len(clickLog) = 2
  /\ clickLog[1].periods # clickLog[2].periods
  /\ slider.periods # session.periods
  /\ shown.kind = "table"
  /\ Len(shown.table) = session.periods

====
